---- MODULE Spec2Model ----
(***************************************************************************)
(* Rank-Spotter: the rank-resolution engine of src/serp_api.py             *)
(* (SerpApiClient.search, find_domain_rank, _normalize_domain,             *)
(* _create_response) and the keyword loop of src/app.py (check_serp).      *)
(*                                                                         *)
(* Strings are sequences of one-character strings, so that the string      *)
(* operations of _normalize_domain are computed, not assumed.              *)
(***************************************************************************)
EXTENDS Integers, Sequences, FiniteSets, TLC

\* ------------------------------------------------------------------------
\* Python string operations used by _normalize_domain
\* ------------------------------------------------------------------------

UpperChars == <<"A","B","C","D","E","F","G","H","I","J","K","L","M",
                "N","O","P","Q","R","S","T","U","V","W","X","Y","Z">>

LowerChars == <<"a","b","c","d","e","f","g","h","i","j","k","l","m",
                "n","o","p","q","r","s","t","u","v","w","x","y","z">>

Whitespace == {" ", "\t", "\n", "\r"}

\* str.lower() on one character
LowerChar(c) ==
    IF \E i \in DOMAIN UpperChars : UpperChars[i] = c
    THEN LowerChars[CHOOSE i \in DOMAIN UpperChars : UpperChars[i] = c]
    ELSE c

\* str.lower()
Lower(s) == [i \in 1..Len(s) |-> LowerChar(s[i])]

\* s[k:] (0-based k as in Python)
DropFirst(s, k) == SubSeq(s, k + 1, Len(s))

\* str.startswith(prefix)
StartsWith(s, prefix) ==
    /\ Len(prefix) <= Len(s)
    /\ SubSeq(s, 1, Len(prefix)) = prefix

\* str.endswith(suffix)
EndsWith(s, suffix) ==
    /\ Len(suffix) <= Len(s)
    /\ SubSeq(s, Len(s) - Len(suffix) + 1, Len(s)) = suffix

\* str.strip(): leading and trailing whitespace removed
RECURSIVE LStrip(_)
LStrip(s) ==
    IF s # <<>> /\ Head(s) \in Whitespace THEN LStrip(Tail(s)) ELSE s

RECURSIVE RStrip(_)
RStrip(s) ==
    IF s # <<>> /\ s[Len(s)] \in Whitespace
    THEN RStrip(SubSeq(s, 1, Len(s) - 1))
    ELSE s

Strip(s) == RStrip(LStrip(s))

\* str.replace(old, ''): every non-overlapping occurrence, left to right
RECURSIVE Remove(_, _)
Remove(s, old) ==
    IF Len(s) < Len(old) THEN s
    ELSE IF StartsWith(s, old) THEN Remove(DropFirst(s, Len(old)), old)
    ELSE <<Head(s)>> \o Remove(Tail(s), old)

\* str.split(sep)[0] for a one-character sep: the text before the first sep
RECURSIVE SplitFirst(_, _)
SplitFirst(s, sep) ==
    IF s = <<>> \/ Head(s) = sep THEN <<>>
    ELSE <<Head(s)>> \o SplitFirst(Tail(s), sep)

\* str.rstrip('.')
RECURSIVE RStripDots(_)
RStripDots(s) ==
    IF s # <<>> /\ s[Len(s)] = "."
    THEN RStripDots(SubSeq(s, 1, Len(s) - 1))
    ELSE s

S_https == <<"h","t","t","p","s",":","/","/">>
S_http == <<"h","t","t","p",":","/","/">>
S_www == <<"w","w","w",".">>

\* SerpApiClient._normalize_domain
normalize_domain(url) ==
    IF url = <<>> THEN <<>>
    ELSE
      LET d1 == Strip(Lower(url))
          d2 == Remove(Remove(d1, S_https), S_http)
          d3 == IF StartsWith(d2, S_www) THEN DropFirst(d2, 4) ELSE d2
          d4 == SplitFirst(d3, "/")
          d5 == SplitFirst(d4, "?")
          d6 == SplitFirst(d5, ":")
      IN  RStripDots(d6)

\* the match test with the separating dot forgotten
is_match_without_dot(result_domain, normalized_domain) ==
    \/ result_domain = normalized_domain
    \/ EndsWith(result_domain, normalized_domain)

\* the match test of find_domain_rank (and of test_matching)
is_match(result_domain, normalized_domain) ==
    \/ result_domain = normalized_domain
    \/ EndsWith(result_domain, <<".">> \o normalized_domain)


\* ------------------------------------------------------------------------
\* Text constants
\* ------------------------------------------------------------------------

S_example_com == <<"e","x","a","m","p","l","e",".","c","o","m">>
S_dot == <<".">>
S_url_form == <<"h","t","t","p","s",":","/","/","w","w","w",".","E","x","a","m","p","l","e",".","c","o","m","/">>
S_exact_link == <<"h","t","t","p","s",":","/","/","e","x","a","m","p","l","e",".","c","o","m","/","s","h","o","e","s">>
S_sub_link == <<"h","t","t","p","s",":","/","/","b","l","o","g",".","e","x","a","m","p","l","e",".","c","o","m","/","p","o","s","t">>
S_other_link == <<"h","t","t","p","s",":","/","/","w","w","w",".","n","o","t","e","x","a","m","p","l","e",".","c","o","m","/","p","a","g","e">>
S_NA == <<"N","/","A">>
S_site_link == <<"h","t","t","p","s",":","/","/","e","x","a","m","p","l","e","s","i","t","e",".","c","o","m","/","p","a","g","e">>
S_dash_link == <<"h","t","t","p","s",":","/","/","m","y","-","e","x","a","m","p","l","e",".","c","o","m","/","p","a","g","e">>
S_my_link == <<"h","t","t","p","s",":","/","/","m","y","e","x","a","m","p","l","e",".","c","o","m">>
S_shop_link == <<"h","t","t","p","s",":","/","/","s","h","o","p",".","e","x","a","m","p","l","e",".","c","o","m","/","p","r","o","d","u","c","t","s">>
S_port_link == <<"e","x","a","m","p","l","e",".","c","o","m",":","8","0","8","0">>

\* ------------------------------------------------------------------------
\* Program constants
\* ------------------------------------------------------------------------

per_page == 10
MaxPages == 5
MaxWorkerPool == 3
chunk_size == 20
MaxAttempts == 2
TopN == 10
DefaultNumResults == 100

\* position = None
NoPosition == 0

\* validate_input: "Maximum 10 keywords allowed"
MaxKeywordCount == 10
MAX_KEYWORD_LENGTH == 200
MAX_DOMAIN_LENGTH == 100

\* ------------------------------------------------------------------------
\* Bounds of the model
\* ------------------------------------------------------------------------

\* upstream request outcomes other than a good response, per HTTP request
MaxFaults == 3

\* keywords in one request of the batch specification
MaxKeywords == 2

\* tokens in one input of the normalisation harness
MaxTokens == 4

\* ------------------------------------------------------------------------
\* The upstream provider (environment)
\* ------------------------------------------------------------------------

Min(a, b) == IF a <= b THEN a ELSE b

\* How many organic results the provider has on 0-based page p.
\*   full:  every page is full
\*   short: 13 results in all
\*   few:   4 results in all
\*   empty: no results
\*   hole:  page 2 is empty although later pages are not
PageSize(profile, p) ==
    CASE profile = "full"  -> per_page
      [] profile = "short" -> IF p = 0 THEN per_page ELSE IF p = 1 THEN 3 ELSE 0
      [] profile = "few"   -> IF p = 0 THEN 4 ELSE 0
      [] profile = "empty" -> 0
      [] profile = "hole"  -> IF p = 1 THEN 0 ELSE per_page

\* hits says where the interesting links sit (1-based rank at the provider ->
\* kind of link); every other result carries the look-alike S_other_link.
\* The provider's holdings the model draws from.
Upstreams ==
    { [profile |-> "full",  hits |-> <<>>],
      [profile |-> "full",  hits |-> (3 :> "exact")],
      [profile |-> "full",  hits |-> (13 :> "exact")],
      [profile |-> "full",  hits |-> (13 :> "sub") @@ (17 :> "exact")],
      [profile |-> "full",  hits |-> (3 :> "nolink") @@ (13 :> "exact")],
      [profile |-> "full",  hits |-> (25 :> "sub")],
      [profile |-> "short", hits |-> <<>>],
      [profile |-> "short", hits |-> (13 :> "exact")],
      [profile |-> "few",   hits |-> (3 :> "exact")],
      [profile |-> "empty", hits |-> <<>>],
      [profile |-> "hole",  hits |-> (25 :> "sub")] }

\* The links of the provider's results, by kind; a result of kind "nolink"
\* has no link key.
LinkText(kind) ==
    CASE kind = "exact" -> S_exact_link
      [] kind = "sub" -> S_sub_link
      [] kind = "other" -> S_other_link

\* One organic result: a dict with a title (src, the provider's rank of the
\* result, stands for it) and, unless kind = "nolink", the link
\* LinkText(kind).
Item(u, n) ==
    [ src |-> n,
      kind |-> IF n \in DOMAIN u.hits THEN u.hits[n] ELSE "other" ]

\* data.get('organic_results', []) of a good response for 0-based page p
UpstreamPage(u, p) ==
    [i \in 1..PageSize(u.profile, p) |-> Item(u, p * per_page + i)]

\* The organic results of one response as the client holds them: via says
\* which pass of search received the response ("par" or "seq").
Tagged(organic, via) ==
    [i \in DOMAIN organic |->
        [src |-> organic[i].src, kind |-> organic[i].kind, via |-> via]]

\* What one HTTP request can come to:
\*   ok    2xx with a JSON object
\*   rate  HTTP 429
\*   err   requests.exceptions.RequestException (timeout, connection error,
\*         non-2xx status raised by raise_for_status)
\*   bad   any other exception while reading the response (the body is not
\*         a JSON object)
Outcomes == {"ok", "rate", "err", "bad"}

\* ------------------------------------------------------------------------
\* Pure parts of SerpApiClient
\* ------------------------------------------------------------------------

\* pages_needed with the safety cap forgotten
pages_needed_uncapped(max_results) ==
    (max_results + per_page - 1) \div per_page

\* search: pages_needed
pages_needed_for(max_results) ==
    Min((max_results + per_page - 1) \div per_page, MaxPages)

\* a pool as wide as the page list
max_workers_unbounded(pn) == pn

\* search: max_workers
max_workers_for(pn) == Min(pn, MaxWorkerPool)

\* the sequential pass: the sleep after a 429 at the given attempt, in half
\* seconds (wait = 0.5 * (2 ** (attempt - 1)))
backoff_429(att) == 2 ^ (att - 1)

\* the sequential pass: the sleep after a RequestException at the given
\* attempt, in half seconds (time.sleep(1 * attempt))
backoff_error(att) == 2 * att

\* chunk_max with the cut at max_results forgotten
chunk_max_uncut(mr, cs) == chunk_size

\* find_domain_rank: chunk_max
chunk_max_for(mr, cs) == Min(chunk_size, mr - cs)

\* search: all_organic_results[:max_results]
Trim(items, max_results) == SubSeq(items, 1, Min(Len(items), max_results))

\* the pages put together last page first
RECURSIVE AssembleDescending(_, _, _)
AssembleDescending(by_page, p, pn) ==
    IF p >= pn \/ by_page[p] = <<>> THEN <<>>
    ELSE AssembleDescending(by_page, p + 1, pn) \o by_page[p]

\* search: "Assemble results in page order", from 0-based page p on
RECURSIVE Assemble(_, _, _)
Assemble(by_page, p, pn) ==
    IF p >= pn \/ by_page[p] = <<>> THEN <<>>
    ELSE by_page[p] \o Assemble(by_page, p + 1, pn)

\* result.get('link', default)
GetLink(item, default) ==
    IF item.kind = "nolink" THEN default ELSE LinkText(item.kind)

\* find_domain_rank: result_domain = self._normalize_domain(result_link)
\* with result_link = result.get('link', ''), tabulated per kind of link
ResultDomainOf ==
    [kind \in {"exact", "sub", "other", "nolink"} |->
        normalize_domain(IF kind = "nolink" THEN <<>> ELSE LinkText(kind))]

result_domain_of(item) == ResultDomainOf[item.kind]

\* the scan without the early return: the last match wins
RECURSIVE ScanKeepsGoing(_, _, _)
ScanKeepsGoing(items, idx, nd) ==
    IF idx > Len(items) THEN NoPosition
    ELSE LET later == ScanKeepsGoing(items, idx + 1, nd)
         IN  IF later # NoPosition THEN later
             ELSE IF is_match(result_domain_of(items[idx]), nd) THEN idx
             ELSE NoPosition

\* find_domain_rank: the scan of all_organic_results from index idx on;
\* the position of the match that returns, or NoPosition
RECURSIVE Scan(_, _, _)
Scan(items, idx, nd) ==
    IF idx > Len(items) THEN NoPosition
    ELSE IF is_match(result_domain_of(items[idx]), nd) THEN idx
    ELSE Scan(items, idx + 1, nd)

\* _create_response with the preview cut one short
create_response_short_preview(keyword, dom, position, organic_results) ==
    LET top == [idx \in 1..Min(TopN - 1, Len(organic_results)) |->
                  [ position |-> idx,
                    title |-> organic_results[idx].src,
                    link |-> GetLink(organic_results[idx], S_NA) ]]
        response == [ keyword |-> keyword,
                      domain |-> dom,
                      position |-> position,
                      found |-> position # NoPosition,
                      total_results |-> Len(organic_results),
                      top_results |-> top ]
    IN  IF position # NoPosition
        THEN response @@ [ url |-> GetLink(organic_results[position], S_NA),
                           title |-> organic_results[position].src ]
        ELSE response

\* _create_response
create_response(keyword, dom, position, organic_results) ==
    LET top == [idx \in 1..Min(TopN, Len(organic_results)) |->
                  [ position |-> idx,
                    title |-> organic_results[idx].src,
                    link |-> GetLink(organic_results[idx], S_NA) ]]
        response == [ keyword |-> keyword,
                      domain |-> dom,
                      position |-> position,
                      found |-> position # NoPosition,
                      total_results |-> Len(organic_results),
                      top_results |-> top ]
    IN  IF position # NoPosition
        THEN response @@ [ url |-> GetLink(organic_results[position], S_NA),
                           title |-> organic_results[position].src ]
        ELSE response

\* check_serp: the entry appended when find_domain_rank raised
error_entry(keyword, dom) ==
    [ keyword |-> keyword, domain |-> dom, error |-> TRUE,
      found |-> FALSE, position |-> NoPosition ]

\* ------------------------------------------------------------------------
\* Pure parts of the HTTP layer
\* ------------------------------------------------------------------------

\* Keywords are opaque texts; these two say what strip() and len() make of
\* them.  "k201" stands for a keyword of 201 characters.
keyword_strip(k) ==
    CASE k = " shoes " -> "shoes"
      [] k = "  " -> ""
      [] OTHER -> k

keyword_len(k) == IF k = "k201" THEN MAX_KEYWORD_LENGTH + 1 ELSE 5

NonBlank(k) == keyword_strip(k) # ""

\* the JSON body of a request: data.get('keywords', []),
\* data.get('keyword', ''), data.get('domain', '')
Body(kws, keyword, dom) == [keywords |-> kws, keyword |-> keyword, domain |-> dom]

EmptyBody == Body(<<>>, "", <<>>)

\* validate_input: (is_valid, cleaned_data)
validate_input(d) ==
    LET listed == d.keywords # <<>>
        kept == SelectSeq(d.keywords, NonBlank)
        cleaned == [i \in DOMAIN kept |-> keyword_strip(kept[i])]
        keyword == keyword_strip(d.keyword)
        kws == IF listed THEN cleaned
               ELSE IF keyword # "" THEN <<keyword>> ELSE <<>>
        dom == Strip(d.domain)
        invalid ==
            \/ d = EmptyBody
            \/ kws = <<>>
            \/ listed /\ Len(kws) > MaxKeywordCount
            \/ dom = <<>>
            \/ \E i \in DOMAIN kws : keyword_len(kws[i]) > MAX_KEYWORD_LENGTH
            \/ Len(dom) > MAX_DOMAIN_LENGTH
            \/ \E i \in DOMAIN dom : dom[i] = " "
            \/ ~(\E i \in DOMAIN dom : dom[i] = ".")
    IN  [is_valid |-> ~invalid, keywords |-> kws, domain |-> dom]

\* What the siteverify call can come to for a token: Google's verdict, or
\* an exception (timeout, unreadable answer).
SiteverifyAnswers(token) ==
    IF token = "valid" THEN {"success", "error"} ELSE {"failure", "error"}

\* verify_recaptcha; token "none" is a missing or empty token
verify_recaptcha(secret, token, answer) ==
    IF ~secret THEN TRUE
    ELSE IF token = "none" THEN FALSE
    ELSE answer = "success"

\* check_serp: "if recaptcha_token: if not verify_recaptcha(...): return 400"
captcha_gate(secret, token, answer) ==
    token = "none" \/ verify_recaptcha(secret, token, answer)

\* ------------------------------------------------------------------------
\* State
\* ------------------------------------------------------------------------

VARIABLES
    pc,                  \* where the request handler is
    num_results,         \* SerpApiClient.num_results (Config.SERPAPI_RESULTS)
    \* check_serp
    keywords,            \* cleaned_data['keywords']
    domain,              \* cleaned_data['domain']
    kw,                  \* index of the keyword of the current loop round
    results,             \* results
    \* find_domain_rank
    upstream,            \* what the provider holds for the current keyword
    max_results,
    normalized_domain,
    chunk_start,
    organic_results,     \* all_organic_results of find_domain_rank
    rank_ret,            \* how find_domain_rank ended
    \* search
    search_max,          \* max_results of search
    pages_needed,
    futures,             \* page_idx -> "queued" | "running" | "done"
    results_by_page,
    all_organic_results, \* all_organic_results of search
    page_idx,
    attempt,
    search_ret,          \* how search ended
    \* bookkeeping for the properties
    faults,              \* bad outcomes handed out so far
    attempted,           \* keywords find_domain_rank was called for, in order
    n_search,            \* search calls of the current query
    n_requests,          \* HTTP requests of the current query
    abandoned,           \* 1-based page given up by the current search, or 0
    page1_lost,          \* the current search lost page 1 in both passes
    q_abandoned,         \* pages given up in any search of the current query
    q_page1_lost,        \* some search of the query lost page 1 both ways
    req_log,             \* the page requests of the current search call
    q_empty_at,          \* the search call of the query (1, 2, ...) in which a
                         \* page without results was first received, or 0
    out_of_order,        \* the parallel pass whose pages search holds saw a
                         \* request complete before one of a lower page
    par_page1_failed,    \* the parallel request for page 1 of the current
                         \* search call failed
    \* HTTP layer
    data,                \* the JSON body of the request
    secret_configured,   \* Config.RECAPTCHA_SECRET_KEY is set
    recaptcha_token,     \* "none" | "valid" | "invalid"
    verified,            \* siteverify confirmed the token of the request
    validated,           \* validate_input accepted the request
    \* normalisation harness
    nPc, nUrl, nTarget, nOut, nOut2, nMatch

app_vars == <<num_results, keywords, domain, kw, results>>
rank_vars == <<upstream, max_results, normalized_domain, chunk_start,
               organic_results, rank_ret>>
search_locals == <<search_max, pages_needed, futures, results_by_page,
                   all_organic_results, page_idx, attempt>>
query_hist == <<n_search, n_requests, abandoned, page1_lost, q_abandoned,
                q_page1_lost>>
norm_vars == <<nPc, nUrl, nTarget, nOut, nOut2, nMatch>>
http_vars == <<data, secret_configured, recaptcha_token, verified, validated>>
trace_vars == <<req_log, q_empty_at, out_of_order, par_page1_failed>>
vars == <<pc, app_vars, rank_vars, search_locals, search_ret, faults,
          attempted, query_hist, norm_vars, http_vars, trace_vars>>

NoRet == [raised |-> FALSE, value |-> <<>>]

\* ------------------------------------------------------------------------
\* Inputs
\* ------------------------------------------------------------------------

NumResultsChoices == {15, 40, DefaultNumResults}
Domains == {S_example_com, S_url_form, S_dot}
KeywordNames == <<"shoes", "boots", "socks", "hats">>

\* the keyword lists of at most n keywords
KeywordLists(n) == { SubSeq(KeywordNames, 1, k) : k \in 1..n }

\* no call of search is active
NoSearch ==
    /\ search_max = 0 /\ pages_needed = 0 /\ futures = <<>>
    /\ results_by_page = <<>> /\ all_organic_results = <<>>
    /\ page_idx = 0 /\ attempt = 0

\* no call of find_domain_rank is active
NoQuery ==
    /\ upstream = [profile |-> "empty", hits |-> <<>>]
    /\ max_results = 0 /\ normalized_domain = <<>> /\ chunk_start = 0
    /\ organic_results = <<>> /\ rank_ret = NoRet
    /\ search_ret = NoRet
    /\ n_search = 0 /\ n_requests = 0
    /\ abandoned = 0 /\ page1_lost = FALSE
    /\ q_abandoned = {} /\ q_page1_lost = FALSE
    /\ req_log = <<>> /\ q_empty_at = 0 /\ out_of_order = FALSE
    /\ par_page1_failed = FALSE

IdleCore ==
    /\ kw = 0 /\ results = <<>>
    /\ keywords = <<>> /\ domain = <<>>
    /\ verified = FALSE /\ validated = FALSE
    /\ NoQuery
    /\ NoSearch
    /\ faults = 0 /\ attempted = <<>>

IdleNorm ==
    /\ nPc = "off" /\ nUrl = <<>> /\ nTarget = <<>>
    /\ nOut = <<>> /\ nOut2 = <<>> /\ nMatch = FALSE

\* The server is up without a reCAPTCHA secret, the client is constructed
\* with its configured num_results, and a request with one keyword and no
\* token has arrived.
Init ==
    /\ pc = "recv"
    /\ IdleCore
    /\ IdleNorm
    /\ num_results \in NumResultsChoices
    /\ \E kws \in KeywordLists(1), dom \in Domains : data = Body(kws, "", dom)
    /\ secret_configured = FALSE
    /\ recaptcha_token = "none"

\* The same with several keywords in the request and a client configured
\* for three pages of results (two chunks).
InitBatch ==
    /\ pc = "recv"
    /\ IdleCore
    /\ IdleNorm
    /\ num_results = chunk_size + per_page
    /\ \E kws \in KeywordLists(MaxKeywords) : data = Body(kws, "", S_example_com)
    /\ secret_configured = FALSE
    /\ recaptcha_token = "none"

\* ------------------------------------------------------------------------
\* check_serp
\* ------------------------------------------------------------------------

\* the handler leaves a request alone but for the marks of its two gates
Gates(v, ok) ==
    /\ verified' = v
    /\ validated' = ok
    /\ UNCHANGED <<data, secret_configured, recaptcha_token>>

\* The token, if there is one, is verified and the body passes
\* validate_input: keywords and domain are cleaned_data, results = [].
Receive ==
    /\ pc = "recv"
    /\ \E answer \in SiteverifyAnswers(recaptcha_token) :
         /\ captcha_gate(secret_configured, recaptcha_token, answer)
         /\ Gates(secret_configured /\ recaptcha_token # "none"
                     /\ answer = "success", TRUE)
    /\ LET v == validate_input(data)
       IN  /\ v.is_valid
           /\ keywords' = v.keywords
           /\ domain' = v.domain
    /\ results' = <<>>
    /\ pc' = "app_loop"
    /\ UNCHANGED <<num_results, kw, rank_vars,
                   search_locals, search_ret, faults, attempted, query_hist,
                   norm_vars, trace_vars>>

\* verify_recaptcha said no: 400 "reCAPTCHA verification failed"
RejectCaptcha ==
    /\ pc = "recv"
    /\ \E answer \in SiteverifyAnswers(recaptcha_token) :
         ~captcha_gate(secret_configured, recaptcha_token, answer)
    /\ Gates(FALSE, FALSE)
    /\ pc' = "rejected"
    /\ UNCHANGED <<app_vars, rank_vars, search_locals, search_ret, faults,
                   attempted, query_hist, norm_vars, trace_vars>>

\* validate_input said no: 400 with its error message
RejectInvalid ==
    /\ pc = "recv"
    /\ \E answer \in SiteverifyAnswers(recaptcha_token) :
         /\ captcha_gate(secret_configured, recaptcha_token, answer)
         /\ Gates(secret_configured /\ recaptcha_token # "none"
                     /\ answer = "success", FALSE)
    /\ ~validate_input(data).is_valid
    /\ pc' = "rejected"
    /\ UNCHANGED <<app_vars, rank_vars, search_locals, search_ret, faults,
                   attempted, query_hist, norm_vars, trace_vars>>

\* for keyword in keywords: ... serp_client.find_domain_rank(keyword, domain)
\* up to the head of the chunk loop (num_results is positive, so the range
\* of chunk starts is not empty)
KeywordBegin ==
    /\ pc = "app_loop"
    /\ kw < Len(keywords)
    /\ kw' = kw + 1
    /\ attempted' = Append(attempted, keywords[kw + 1])
    /\ \E u \in Upstreams : upstream' = u
    /\ max_results' = num_results
    /\ normalized_domain' = normalize_domain(domain)
    /\ chunk_start' = 0
    /\ organic_results' = <<>>
    /\ pc' = "rank_loop"
    /\ UNCHANGED <<num_results, keywords, domain, results, rank_ret,
                   search_locals, search_ret, faults, query_hist, norm_vars, http_vars, trace_vars>>

\* the keyword loop without its try/except: a failed keyword ends the
\* request (the outer handler answers 500)
CollectOrAbort ==
    /\ pc = "rank_done"
    /\ results' = IF rank_ret.raised THEN results
                  ELSE Append(results, rank_ret.value)
    /\ upstream' = [profile |-> "empty", hits |-> <<>>]
    /\ max_results' = 0 /\ normalized_domain' = <<>> /\ chunk_start' = 0
    /\ organic_results' = <<>> /\ rank_ret' = NoRet
    /\ search_ret' = NoRet
    /\ n_search' = 0 /\ n_requests' = 0
    /\ abandoned' = 0 /\ page1_lost' = FALSE
    /\ q_abandoned' = {} /\ q_page1_lost' = FALSE
    /\ req_log' = <<>> /\ q_empty_at' = 0 /\ out_of_order' = FALSE
    /\ par_page1_failed' = FALSE
    /\ pc' = IF rank_ret.raised THEN "done" ELSE "app_loop"
    /\ UNCHANGED <<num_results, keywords, domain, kw, search_locals, faults,
                   attempted, norm_vars, http_vars>>

\* results.append(result) / the except branch of the keyword loop; the
\* frame of find_domain_rank is gone
Collect ==
    /\ pc = "rank_done"
    /\ results' = Append(results,
                         IF rank_ret.raised
                         THEN error_entry(keywords[kw], domain)
                         ELSE rank_ret.value)
    /\ upstream' = [profile |-> "empty", hits |-> <<>>]
    /\ max_results' = 0 /\ normalized_domain' = <<>> /\ chunk_start' = 0
    /\ organic_results' = <<>> /\ rank_ret' = NoRet
    /\ search_ret' = NoRet
    /\ n_search' = 0 /\ n_requests' = 0
    /\ abandoned' = 0 /\ page1_lost' = FALSE
    /\ q_abandoned' = {} /\ q_page1_lost' = FALSE
    /\ req_log' = <<>> /\ q_empty_at' = 0 /\ out_of_order' = FALSE
    /\ par_page1_failed' = FALSE
    /\ pc' = "app_loop"
    /\ UNCHANGED <<num_results, keywords, domain, kw, search_locals, faults,
                   attempted, norm_vars, http_vars>>

\* the loop is over: the 200 response is sent
Respond ==
    /\ pc = "app_loop"
    /\ kw = Len(keywords)
    /\ pc' = "done"
    /\ UNCHANGED <<app_vars, rank_vars, search_locals, search_ret, faults,
                   attempted, query_hist, norm_vars, http_vars, trace_vars>>

\* ------------------------------------------------------------------------
\* find_domain_rank: the chunk loop calls search
\* ------------------------------------------------------------------------

\* for chunk_start in range(0, max_results, chunk_size):
\*     results = self.search(keyword, max_results=chunk_start + chunk_max)
\* up to the submission of every page request to the pool
ChunkBegin ==
    /\ pc = "rank_loop"
    /\ chunk_start < max_results
    /\ LET chunk_max == chunk_max_for(max_results, chunk_start)
           pn == pages_needed_for(chunk_start + chunk_max)
       IN  /\ search_max' = chunk_start + chunk_max
           /\ pages_needed' = pn
           /\ futures' = [p \in 0..(pn - 1) |-> "queued"]
    /\ results_by_page' = <<>>
    /\ all_organic_results' = <<>>
    /\ page_idx' = 0 /\ attempt' = 0
    /\ search_ret' = NoRet
    /\ abandoned' = 0 /\ page1_lost' = FALSE
    /\ n_search' = n_search + 1
    /\ req_log' = <<>>
    /\ out_of_order' = FALSE
    /\ par_page1_failed' = FALSE
    /\ pc' = "par_wait"
    /\ UNCHANGED <<app_vars, rank_vars, faults, attempted, n_requests,
                   q_abandoned, q_page1_lost, norm_vars, http_vars,
                   q_empty_at>>

\* ------------------------------------------------------------------------
\* search: the parallel pass
\* ------------------------------------------------------------------------

Running == {p \in DOMAIN futures : futures[p] = "running"}
Queued == {p \in DOMAIN futures : futures[p] = "queued"}

\* the pages whose parallel request ended without a stored page
ParFailed ==
    {p \in DOMAIN futures : futures[p] = "done" /\ p \notin DOMAIN results_by_page}

\* a pool thread is free and a request is queued
CanStart ==
    /\ Queued # {}
    /\ Cardinality(Running) < max_workers_for(pages_needed)

\* one entry of req_log: a request for 0-based page p was sent by pass via
\* as the given attempt, came to outcome o (always "sent" for a parallel
\* request, whose outcome futures and results_by_page tell) and was
\* followed by a sleep of w half seconds
Request(via, p, att, o, w) ==
    [via |-> via, page |-> p, attempt |-> att, outcome |-> o, wait |-> w]

\* A pool thread takes the oldest queued request and sends it.
WorkerStart ==
    /\ pc = "par_wait"
    /\ CanStart
    /\ \E p \in Queued :
         /\ \A q \in Queued : p <= q
         /\ futures' = [futures EXCEPT ![p] = "running"]
         /\ req_log' = Append(req_log, Request("par", p, 1, "sent", 0))
    /\ n_requests' = n_requests + 1
    /\ UNCHANGED <<pc, app_vars, rank_vars, search_max, pages_needed,
                   results_by_page, all_organic_results, page_idx, attempt,
                   search_ret, faults, attempted, n_search, abandoned,
                   page1_lost, q_abandoned, q_page1_lost, norm_vars, http_vars,
                   q_empty_at, out_of_order, par_page1_failed>>

\* the request for page p completes while one for a lower page has not
Overtakes(p) == \E q \in DOMAIN futures : q < p /\ futures[q] # "done"

\* A request completes with a good response; as_completed hands it to the
\* main thread, which stores the page.  (Taking a queued request is a local
\* step of a free thread; a response is a network round trip later.)
WorkerSucceeds ==
    /\ pc = "par_wait"
    /\ ~CanStart
    /\ \E p \in Running :
         /\ futures' = [futures EXCEPT ![p] = "done"]
         /\ results_by_page' =
                results_by_page @@ (p :> Tagged(UpstreamPage(upstream, p), "par"))
         /\ q_empty_at' = IF q_empty_at = 0 /\ UpstreamPage(upstream, p) = <<>>
                          THEN n_search ELSE q_empty_at
         /\ out_of_order' = (out_of_order \/ Overtakes(p))
    /\ UNCHANGED <<pc, app_vars, rank_vars, search_max, pages_needed,
                   all_organic_results, page_idx, attempt, search_ret,
                   faults, attempted, query_hist, norm_vars, http_vars,
                   req_log, par_page1_failed>>

\* A request completes with an exception, a non-2xx status (429 included)
\* or an unreadable body: logged, nothing stored.
WorkerFails ==
    /\ pc = "par_wait"
    /\ ~CanStart
    /\ faults < MaxFaults
    /\ \E p \in Running, o \in Outcomes \ {"ok"} :
         /\ futures' = [futures EXCEPT ![p] = "done"]
         /\ out_of_order' = (out_of_order \/ Overtakes(p))
         /\ par_page1_failed' = (par_page1_failed \/ p = 0)
    /\ faults' = faults + 1
    /\ UNCHANGED <<pc, app_vars, rank_vars, search_max, pages_needed,
                   results_by_page, all_organic_results, page_idx, attempt,
                   search_ret, attempted, query_hist, norm_vars, http_vars,
                   req_log, q_empty_at>>

AllDone == \A p \in DOMAIN futures : futures[p] = "done"

\* search returns or raises: its frame is gone
SearchEnds(ret) ==
    /\ search_ret' = ret
    /\ search_max' = 0 /\ pages_needed' = 0 /\ futures' = <<>>
    /\ results_by_page' = <<>> /\ all_organic_results' = <<>>
    /\ page_idx' = 0 /\ attempt' = 0
    /\ pc' = "search_done"

\* Every page arrived: assemble in page order, trim, return.
ParallelComplete ==
    /\ pc = "par_wait"
    /\ AllDone
    /\ ~(Cardinality(DOMAIN results_by_page) < pages_needed)
    /\ SearchEnds([raised |-> FALSE,
                   value |-> Trim(Assemble(results_by_page, 0, pages_needed),
                                  search_max)])
    /\ UNCHANGED <<app_vars, rank_vars, faults, attempted, query_hist,
                   norm_vars, http_vars, trace_vars>>

\* a fallback that keeps the pages the parallel pass stored and fetches
\* from the first missing page on
FallbackResumes ==
    /\ pc = "par_wait"
    /\ AllDone
    /\ Cardinality(DOMAIN results_by_page) < pages_needed
    /\ LET missing == CHOOSE p \in 0..(pages_needed - 1) :
                          /\ p \notin DOMAIN results_by_page
                          /\ \A q \in 0..(p - 1) : q \in DOMAIN results_by_page
       IN  /\ all_organic_results' = Assemble(results_by_page, 0, missing)
           /\ page_idx' = missing
    /\ attempt' = 1
    /\ futures' = <<>>
    /\ results_by_page' = <<>>
    /\ out_of_order' = FALSE
    /\ pc' = "seq"
    /\ UNCHANGED <<app_vars, rank_vars, search_max, pages_needed,
                   search_ret, faults, attempted, query_hist, norm_vars,
                   http_vars, req_log, q_empty_at, par_page1_failed>>

\* len(results_by_page) < pages_needed: start the sequential pass.  The
\* pool is shut down, and futures and results_by_page are not read again:
\* they are dropped here.
FallbackBegin ==
    /\ pc = "par_wait"
    /\ AllDone
    /\ Cardinality(DOMAIN results_by_page) < pages_needed
    /\ all_organic_results' = <<>>
    /\ page_idx' = 0
    /\ attempt' = 1
    /\ futures' = <<>>
    /\ results_by_page' = <<>>
    /\ out_of_order' = FALSE
    /\ pc' = "seq"
    /\ UNCHANGED <<app_vars, rank_vars, search_max, pages_needed,
                   search_ret, faults, attempted, query_hist, norm_vars,
                   http_vars, req_log, q_empty_at, par_page1_failed>>

\* ------------------------------------------------------------------------
\* search: the sequential pass (one action per outcome of the request for
\* page_idx, attempt)
\* ------------------------------------------------------------------------

\* the sequential loop is left: trim and return what was collected
SeqReturn(items) ==
    SearchEnds([raised |-> FALSE, value |-> Trim(items, search_max)])

SeqOk ==
    /\ pc = "seq"
    /\ n_requests' = n_requests + 1
    /\ req_log' = Append(req_log, Request("seq", page_idx, attempt, "ok", 0))
    /\ q_empty_at' = IF q_empty_at = 0 /\ UpstreamPage(upstream, page_idx) = <<>>
                     THEN n_search ELSE q_empty_at
    /\ LET organic == Tagged(UpstreamPage(upstream, page_idx), "seq")
       IN  IF organic # <<>> /\ page_idx + 1 < pages_needed
           THEN /\ all_organic_results' = all_organic_results \o organic
                /\ page_idx' = page_idx + 1
                /\ attempt' = 1
                /\ UNCHANGED <<pc, search_ret, search_max, pages_needed,
                               futures, results_by_page>>
           ELSE SeqReturn(all_organic_results \o organic)
    /\ UNCHANGED <<app_vars, rank_vars, faults, attempted, n_search,
                   abandoned, page1_lost, q_abandoned, q_page1_lost,
                   norm_vars, http_vars, out_of_order, par_page1_failed>>

\* the page is given up after its attempts, and the loop goes on with the
\* next page instead of ending
SeqAttemptLostGoesOn ==
    IF attempt < MaxAttempts
    THEN /\ attempt' = attempt + 1
         /\ UNCHANGED <<pc, search_ret, search_max, pages_needed, futures,
                        results_by_page, all_organic_results, page_idx,
                        abandoned, page1_lost, q_abandoned, q_page1_lost>>
    ELSE /\ abandoned' = page_idx + 1
         /\ page1_lost' = (page_idx = 0 /\ par_page1_failed)
         /\ q_abandoned' = q_abandoned \cup {page_idx + 1}
         /\ q_page1_lost' = (q_page1_lost \/ (page_idx = 0 /\ par_page1_failed))
         /\ IF page_idx + 1 < pages_needed
            THEN /\ page_idx' = page_idx + 1
                 /\ attempt' = 1
                 /\ UNCHANGED <<pc, search_ret, search_max, pages_needed,
                                futures, results_by_page, all_organic_results>>
            ELSE SeqReturn(all_organic_results)

\* the attempt is used up without a page: next attempt, or give the page up
\* ("if not success: ... break")
SeqAttemptLost ==
    IF attempt < MaxAttempts
    THEN /\ attempt' = attempt + 1
         /\ UNCHANGED <<pc, search_ret, search_max, pages_needed, futures,
                        results_by_page, all_organic_results, page_idx,
                        abandoned, page1_lost, q_abandoned, q_page1_lost>>
    ELSE /\ abandoned' = page_idx + 1
         /\ page1_lost' = (page_idx = 0 /\ par_page1_failed)
         /\ q_abandoned' = q_abandoned \cup {page_idx + 1}
         /\ q_page1_lost' = (q_page1_lost \/ (page_idx = 0 /\ par_page1_failed))
         /\ SeqReturn(all_organic_results)

\* resp.status_code == 429: back off, continue
SeqRateLimited ==
    /\ pc = "seq"
    /\ faults < MaxFaults
    /\ faults' = faults + 1
    /\ n_requests' = n_requests + 1
    /\ req_log' = Append(req_log, Request("seq", page_idx, attempt, "rate",
                                          backoff_429(attempt)))
    /\ SeqAttemptLost
    /\ UNCHANGED <<app_vars, rank_vars, attempted, n_search, norm_vars,
                   http_vars, q_empty_at, out_of_order, par_page1_failed>>

\* except requests.exceptions.RequestException: sleep, next attempt
SeqRequestFailed ==
    /\ pc = "seq"
    /\ faults < MaxFaults
    /\ faults' = faults + 1
    /\ n_requests' = n_requests + 1
    /\ req_log' = Append(req_log, Request("seq", page_idx, attempt, "err",
                                          backoff_error(attempt)))
    /\ SeqAttemptLost
    /\ UNCHANGED <<app_vars, rank_vars, attempted, n_search, norm_vars,
                   http_vars, q_empty_at, out_of_order, par_page1_failed>>

\* any other exception leaves the loop for "except Exception as e":
\* raise when nothing was collected, else go on with what there is
SeqUnexpected ==
    /\ pc = "seq"
    /\ faults < MaxFaults
    /\ faults' = faults + 1
    /\ n_requests' = n_requests + 1
    /\ IF all_organic_results = <<>>
       THEN SearchEnds([raised |-> TRUE, value |-> <<>>])
       ELSE SeqReturn(all_organic_results)
    /\ req_log' = Append(req_log, Request("seq", page_idx, attempt, "bad", 0))
    /\ UNCHANGED <<app_vars, rank_vars, attempted, n_search, abandoned,
                   page1_lost, q_abandoned, q_page1_lost, norm_vars,
                   http_vars, q_empty_at, out_of_order, par_page1_failed>>

\* ------------------------------------------------------------------------
\* find_domain_rank: after search
\* ------------------------------------------------------------------------

\* search raised: "except Exception as e: ... raise"
RankRaise ==
    /\ pc = "search_done"
    /\ search_ret.raised
    /\ rank_ret' = [raised |-> TRUE, value |-> <<>>]
    /\ pc' = "rank_done"
    /\ UNCHANGED <<app_vars, upstream, max_results, normalized_domain,
                   chunk_start, organic_results, search_locals, search_ret,
                   faults, attempted, query_hist, norm_vars, http_vars, trace_vars>>

\* the scan finds a match: EARLY EXIT
RankFound ==
    /\ pc = "search_done"
    /\ ~search_ret.raised
    /\ LET items == search_ret.value
           position == Scan(items, 1, normalized_domain)
       IN  /\ position # NoPosition
           /\ organic_results' = items
           /\ rank_ret' = [raised |-> FALSE,
                           value |-> create_response(keywords[kw], domain,
                                                     position, items)]
    /\ pc' = "rank_done"
    /\ UNCHANGED <<app_vars, upstream, max_results, normalized_domain,
                   chunk_start, search_locals, search_ret, faults, attempted,
                   query_hist, norm_vars, http_vars, trace_vars>>

\* break, or the range is used up
LastChunk(items) ==
    \/ Len(items) >= max_results
    \/ ~(chunk_start + chunk_size < max_results)

\* no match and no further chunk: "Domain not found after all chunks"
RankNotFound ==
    /\ pc = "search_done"
    /\ ~search_ret.raised
    /\ LET items == search_ret.value
       IN  /\ Scan(items, 1, normalized_domain) = NoPosition
           /\ LastChunk(items)
           /\ organic_results' = items
           /\ rank_ret' = [raised |-> FALSE,
                           value |-> create_response(keywords[kw], domain,
                                                     NoPosition, items)]
    /\ pc' = "rank_done"
    /\ UNCHANGED <<app_vars, upstream, max_results, normalized_domain,
                   chunk_start, search_locals, search_ret, faults, attempted,
                   query_hist, norm_vars, http_vars, trace_vars>>

\* no match yet: next chunk_start
RankNextChunk ==
    /\ pc = "search_done"
    /\ ~search_ret.raised
    /\ LET items == search_ret.value
       IN  /\ Scan(items, 1, normalized_domain) = NoPosition
           /\ ~LastChunk(items)
           /\ organic_results' = items
    /\ chunk_start' = chunk_start + chunk_size
    /\ pc' = "rank_loop"
    /\ UNCHANGED <<app_vars, upstream, max_results, normalized_domain,
                   rank_ret, search_locals, search_ret, faults, attempted,
                   query_hist, norm_vars, http_vars, trace_vars>>

\* ------------------------------------------------------------------------
\* Specifications of the request handler
\* ------------------------------------------------------------------------

Next ==
    \/ Receive
    \/ KeywordBegin
    \/ ChunkBegin
    \/ WorkerStart
    \/ WorkerSucceeds
    \/ WorkerFails
    \/ ParallelComplete
    \/ FallbackBegin
    \/ SeqOk
    \/ SeqRateLimited
    \/ SeqRequestFailed
    \/ SeqUnexpected
    \/ RankRaise
    \/ RankFound
    \/ RankNotFound
    \/ RankNextChunk
    \/ Collect
    \/ Respond

Spec == Init /\ [][Next]_vars

SpecBatch == InitBatch /\ [][Next]_vars

\* ------------------------------------------------------------------------
\* Specification of the HTTP layer: any request, with or without a
\* reCAPTCHA secret on the server
\* ------------------------------------------------------------------------

S_padded_domain == <<" ">> \o S_example_com \o <<" ">>
S_spaced_domain == <<"e","x","a"," ","m","p","l","e",".","c","o","m">>
S_localhost == <<"l","o","c","a","l","h","o","s","t">>
S_long_domain == [i \in 1..MAX_DOMAIN_LENGTH |-> "a"] \o <<".","c","o","m">>

\* the bodies a client may post: two that validate_input accepts and one
\* for each of its refusals
HttpBodies ==
    { Body(<<>>, " shoes ", S_example_com),
      Body(<<"  ", " shoes ">>, "", S_padded_domain),
      EmptyBody,
      Body(<<"  ">>, "shoes", S_example_com),
      Body([i \in 1..(MaxKeywordCount + 1) |-> "shoes"], "", S_example_com),
      Body(<<>>, "  ", S_example_com),
      Body(<<>>, "shoes", <<" ">>),
      Body(<<>>, "k201", S_example_com),
      Body(<<>>, "shoes", S_long_domain),
      Body(<<>>, "shoes", S_spaced_domain),
      Body(<<>>, "shoes", S_localhost) }

Tokens == {"none", "valid", "invalid"}

InitHttp ==
    /\ pc = "recv"
    /\ IdleCore
    /\ IdleNorm
    /\ num_results = chunk_size + per_page
    /\ data \in HttpBodies
    /\ secret_configured \in BOOLEAN
    /\ recaptcha_token \in Tokens

NextHttp ==
    \/ Receive
    \/ RejectCaptcha
    \/ RejectInvalid
    \/ KeywordBegin
    \/ ChunkBegin
    \/ WorkerStart
    \/ WorkerSucceeds
    \/ WorkerFails
    \/ ParallelComplete
    \/ FallbackBegin
    \/ SeqOk
    \/ SeqRateLimited
    \/ SeqRequestFailed
    \/ SeqUnexpected
    \/ RankRaise
    \/ RankFound
    \/ RankNotFound
    \/ RankNextChunk
    \/ Collect
    \/ Respond

SpecHttp == InitHttp /\ [][NextHttp]_vars

\* ------------------------------------------------------------------------
\* Normalisation harness: _normalize_domain and the match test applied to
\* bounded inputs
\* ------------------------------------------------------------------------

\* the pieces inputs are put together from
NormTokens ==
    { S_https, S_http, S_www, <<"a">>, <<"b">>, <<"A">>,
      <<".">>, <<"/">>, <<"?">>, <<":">>, <<" ">> }

\* every concatenation of at most n tokens
RECURSIVE TokenStrings(_)
TokenStrings(n) ==
    IF n = 0 THEN { <<>> }
    ELSE LET shorter == TokenStrings(n - 1)
         IN  shorter \cup { s \o t : s \in shorter, t \in NormTokens }

S_a_b == <<"a",".","b">>
S_a_b_url == <<"H","t","t","p","s",":","/","/","w","w","w",".","a",".","B","/">>

\* the URLs of test_domain_matching.py and of the specification's examples,
\* all to be matched against example.com
ExampleUrls ==
    { S_exact_link, S_sub_link, S_other_link, S_url_form, S_site_link,
      S_dash_link, S_my_link, S_shop_link, S_port_link }

NormInputs ==
    (TokenStrings(MaxTokens) \X {S_a_b, S_a_b_url, S_dot})
        \cup (ExampleUrls \X {S_example_com})

InitNorm ==
    /\ pc = "off"
    /\ IdleCore
    /\ num_results = DefaultNumResults
    /\ data = EmptyBody
    /\ secret_configured = FALSE
    /\ recaptcha_token = "none"
    /\ nPc = "in"
    /\ \E io \in NormInputs : nUrl = io[1] /\ nTarget = io[2]
    /\ nOut = <<>> /\ nOut2 = <<>> /\ nMatch = FALSE

core_vars == <<pc, app_vars, rank_vars, search_locals, search_ret, faults,
               attempted, query_hist, http_vars, trace_vars>>

\* result_domain = self._normalize_domain(result_link)
NormalizeLink ==
    /\ nPc = "in"
    /\ nOut' = normalize_domain(nUrl)
    /\ nPc' = "once"
    /\ UNCHANGED <<core_vars, nUrl, nTarget, nOut2, nMatch>>

\* the key is normalized again
NormalizeAgain ==
    /\ nPc = "once"
    /\ nOut2' = normalize_domain(nOut)
    /\ nPc' = "twice"
    /\ UNCHANGED <<core_vars, nUrl, nTarget, nOut, nMatch>>

\* the match test against the normalized target
MatchLink ==
    /\ nPc = "twice"
    /\ nMatch' = is_match(nOut, normalize_domain(nTarget))
    /\ nPc' = "matched"
    /\ UNCHANGED <<core_vars, nUrl, nTarget, nOut, nOut2>>

NextNorm ==
    \/ NormalizeLink
    \/ NormalizeAgain
    \/ MatchLink

SpecNorm == InitNorm /\ [][NextNorm]_vars

\* ------------------------------------------------------------------------
\* Properties
\* ------------------------------------------------------------------------

\* find_domain_rank has returned a response (not raised)
Returned == pc = "rank_done" /\ ~rank_ret.raised

\* the link of an item as the matcher reads it, normalized
Canonical(item) ==
    normalize_domain(IF item.kind = "nolink" THEN <<>> ELSE LinkText(item.kind))

\* c is t, or c is some text, a dot, then t
EqualOrDotSuffix(c, t) ==
    \/ c = t
    \/ \E k \in 1..Len(c) :
         /\ k + Len(t) = Len(c)
         /\ c[k] = "."
         /\ \A i \in 1..Len(t) : c[k + i] = t[i]

\* C1: when a search call cannot obtain page 1 at all (its parallel request
\* failed and every sequential attempt for page 1 failed or was answered
\* 429), search raises and find_domain_rank fails: no response is returned.
C1_PageOneLostRaises ==
    /\ (pc = "search_done" /\ page1_lost) => search_ret.raised
    /\ (pc = "rank_done" /\ q_page1_lost) => rank_ret.raised

\* C2: when a page k >= 2 is given up after its attempts, the query fails:
\* find_domain_rank returns no response built from pages 1..k-1.
C2_NoPartialResult ==
    (pc = "rank_done" /\ \E k \in q_abandoned : k >= 2) => rank_ret.raised

\* C3: a found response carries the 1-based index of the first item of the
\* fetched sequence whose normalized link is the normalized target or ends
\* with "." and the target; with 10 other results on page 1 and the match as
\* third result of page 2 (and no request failing) that index is 13.
C3_FirstMatchWins ==
    Returned =>
      LET r == rank_ret.value
          t == normalize_domain(domain)
      IN  /\ r.found =>
                /\ r.position \in 1..Len(organic_results)
                /\ EqualOrDotSuffix(Canonical(organic_results[r.position]), t)
                /\ \A j \in 1..(r.position - 1) :
                      ~EqualOrDotSuffix(Canonical(organic_results[j]), t)
          /\ ( /\ upstream = [profile |-> "full", hits |-> (13 :> "exact")]
               /\ domain = S_example_com
               /\ faults = 0 )
             => (r.found /\ r.position = 13 /\ r.url = S_exact_link)

\* C3 witness: the match at 13 is reported although item 17 matches too
C3_Witness ==
    /\ Returned
    /\ rank_ret.value.found
    /\ rank_ret.value.position = 13
    /\ Len(organic_results) >= 17
    /\ EqualOrDotSuffix(Canonical(organic_results[17]), normalized_domain)

\* the search calls a query needs to reach the safety ceiling of 50 results
CappedSearches == (MaxPages * per_page + chunk_size - 1) \div chunk_size

\* C4: the cost of one query is capped by the 50 results / 5 pages ceiling
\* whatever max_results is asked for: no more search calls than the ceiling
\* needs, and no more page requests than those calls can issue.
C4_CostCapped ==
    /\ n_search <= CappedSearches
    /\ n_requests <= CappedSearches * MaxPages * (1 + MaxAttempts)

\* C5: total_results of every response is at most 50.
C5_TotalAtMostCap ==
    /\ Returned => rank_ret.value.total_results <= MaxPages * per_page
    /\ \A i \in DOMAIN results :
          "total_results" \in DOMAIN results[i]
              => results[i].total_results <= MaxPages * per_page

\* C5 witness: max_results = 100 was asked for and 50 results are reported
C5_Witness ==
    /\ Returned
    /\ max_results = DefaultNumResults
    /\ rank_ret.value.total_results = MaxPages * per_page

\* C6: the link matches iff its normalized form c is the normalized target
\* t or ends with "." and t; a c that ends with t without the dot before it
\* does not match, and of the example URLs exactly those on example.com or
\* on a subdomain of it match example.com.
C6_MatchRule ==
    nPc = "matched" =>
      LET c == nOut
          t == normalize_domain(nTarget)
      IN  /\ nMatch <=> EqualOrDotSuffix(c, t)
          /\ ( /\ Len(c) > Len(t)
               /\ SubSeq(c, Len(c) - Len(t) + 1, Len(c)) = t
               /\ c[Len(c) - Len(t)] # "." ) => ~nMatch
          /\ nTarget = S_example_com =>
                (nMatch <=> nUrl \in { S_exact_link, S_sub_link, S_url_form,
                                       S_shop_link, S_port_link })

\* C6 witness: notexample.com ends with example.com and is not matched
C6_Witness ==
    /\ nPc = "matched"
    /\ nUrl = S_other_link
    /\ nTarget = S_example_com
    /\ EndsWith(nOut, S_example_com)
    /\ ~nMatch

\* C7: a target that normalizes to the empty string never matches:
\* find_domain_rank reports found = false whatever the results are.
C7_EmptyTargetNeverMatches ==
    (Returned /\ normalize_domain(domain) = <<>>) => ~rank_ret.value.found

\* C8: normalize(normalize(x)) = normalize(x) for every input x.
C8_Idempotent ==
    nPc \in {"twice", "matched"} => nOut2 = nOut

\* an entry of results: the error entry of check_serp or a response
IsErrorEntry(e) ==
    /\ "error" \in DOMAIN e
    /\ e.found = FALSE
    /\ e.position = NoPosition

IsRankResult(e) ==
    /\ "total_results" \in DOMAIN e
    /\ "error" \notin DOMAIN e

\* C9: the lookup is attempted for every keyword in input order and the
\* response has exactly one entry per keyword, in that order, each the
\* keyword's response or the keyword's error entry; a failed keyword does
\* not end the loop.
C9_EveryKeywordReported ==
    /\ attempted = SubSeq(keywords, 1, kw)
    /\ Len(results) \in {kw - 1, kw}
    /\ \A i \in DOMAIN results :
          /\ results[i].keyword = keywords[i]
          /\ IsErrorEntry(results[i]) \/ IsRankResult(results[i])
    /\ pc = "done" => (Len(results) = Len(keywords) /\ attempted = keywords)

\* C9 witness: the first keyword failed, the second got its response
C9_Witness ==
    /\ pc = "done"
    /\ Len(results) >= 2
    /\ IsErrorEntry(results[1])
    /\ IsRankResult(results[2])

\* C10: top_results has min(10, total_results) entries, the first items of
\* the fetched sequence in order, with positions 1..length.
C10_TopResults ==
    Returned =>
      LET r == rank_ret.value
          top == r.top_results
      IN  /\ r.total_results = Len(organic_results)
          /\ Len(top) = Min(10, r.total_results)
          /\ \A i \in 1..Len(top) :
                /\ top[i].position = i
                /\ top[i].title = organic_results[i].src
                /\ top[i].link = IF organic_results[i].kind = "nolink"
                                 THEN S_NA
                                 ELSE LinkText(organic_results[i].kind)

\* C10 witness: more than ten results fetched, ten previewed
C10_Witness ==
    /\ Returned
    /\ rank_ret.value.total_results > 10
    /\ Len(rank_ret.value.top_results) = 10

\* the max_results the current (or last) search call of the query was given
SearchMax == Min(chunk_start + chunk_size, max_results)

\* the provider's pages 1..k put together in page order
RECURSIVE PagesUpTo(_, _)
PagesUpTo(u, k) ==
    IF k = 0 THEN <<>> ELSE PagesUpTo(u, k - 1) \o UpstreamPage(u, k - 1)

\* the items as the provider gave them, without the mark of the pass
Plain(items) ==
    [i \in DOMAIN items |-> [src |-> items[i].src, kind |-> items[i].kind]]

\* a search call has returned its item list
SearchReturned == pc = "search_done" /\ ~search_ret.raised

\* C11: find_domain_rank is called for a request only after validate_input
\* accepted the request and, when a reCAPTCHA secret is configured, after
\* the token of the request was verified successfully; a request whose
\* token failed or is missing never gets to find_domain_rank.
C11_GatesBeforeRank ==
    attempted # <<>> => (validated /\ (secret_configured => verified))

\* the part of C11 that is about validate_input alone
ValidatedBeforeRank ==
    attempted # <<>> =>
        /\ validated
        /\ keywords # <<>> /\ Len(keywords) <= MaxKeywordCount
        /\ \A i \in DOMAIN keywords : keywords[i] \notin {"", "  ", "k201"}
        /\ domain # <<>> /\ Len(domain) <= MAX_DOMAIN_LENGTH
        /\ \A i \in DOMAIN domain : domain[i] # " "
        /\ \E i \in DOMAIN domain : domain[i] = "."

\* C12: whatever the order in which the parallel requests complete, the
\* list a search call returns is the pages 1..k of the provider, for some k,
\* put together in ascending page order and cut to max_results: no page is
\* left out or repeated, and all its items come from one pass.
C12_PageOrderPrefix ==
    SearchReturned =>
      LET items == search_ret.value
      IN  /\ \E k \in 0..MaxPages :
                Plain(items) = Trim(PagesUpTo(upstream, k), SearchMax)
          /\ \A i, j \in DOMAIN items : items[i].via = items[j].via
          /\ \A i \in DOMAIN items : items[i].src = i

\* C12 witness: the parallel pass got every page, a later page before an
\* earlier one, and the list returned holds more than one page
C12_Witness ==
    /\ SearchReturned
    /\ out_of_order
    /\ req_log # <<>>
    /\ \A i \in DOMAIN req_log : req_log[i].via = "par"
    /\ Len(search_ret.value) > per_page
\* ceil(m / per_page), capped at MaxPages, said without the division
PagesFor(m) ==
    IF m > MaxPages * per_page THEN MaxPages
    ELSE CHOOSE n \in 0..MaxPages : (n - 1) * per_page < m /\ m <= n * per_page

\* the requests in flight and the order of the two passes in the log
InFlightBounded ==
    /\ pc \in {"par_wait", "seq"} => pages_needed = PagesFor(SearchMax)
    /\ pc = "par_wait" =>
          Cardinality(Running) <= Min(PagesFor(SearchMax), MaxWorkerPool)
    /\ \A i, j \in DOMAIN req_log :
          (req_log[i].via = "seq" /\ req_log[j].via = "par") => j < i
    /\ (pc = "seq" \/ \E i \in DOMAIN req_log : req_log[i].via = "seq") =>
          Cardinality({i \in DOMAIN req_log : req_log[i].via = "par"})
              = PagesFor(IF pc = "rank_loop" THEN chunk_start ELSE SearchMax)

\* the step that starts the sequential pass
FallbackStep == pc = "par_wait" /\ pc' = "seq"

\* C13: while the parallel pass runs, at most min(pages_needed, 3) requests
\* are in flight, pages_needed being min(ceil(max_results / 10), 5); the
\* sequential pass starts, and sends its first request, only when every
\* parallel request has been sent and has completed (its own requests are
\* synchronous calls of the main thread, one at a time).
C13_BoundedInFlight ==
    /\ []InFlightBounded
    /\ [][FallbackStep => (Running = {} /\ Queued = {} /\ futures # <<>>)]_vars

\* C13 witness: five pages are needed, three requests are in flight and the
\* others wait for a free thread
C13_Witness ==
    /\ pc = "par_wait"
    /\ pages_needed = MaxPages
    /\ Cardinality(Running) = MaxWorkerPool
    /\ Queued # {}
\* the requests of the sequential pass of the current search call, in order
IsSeq(e) == e.via = "seq"
SeqLog == SelectSeq(req_log, IsSeq)

\* the current (or last) search call took the sequential fallback
FallbackTaken == pc = "seq" \/ SeqLog # <<>>

\* search has returned or raised and find_domain_rank has not gone on yet
SearchOver == pc = "search_done"

\* the step that ends the parallel pass decides by the failures alone
FallbackDecision ==
    (pc = "par_wait" /\ pc' # "par_wait") =>
        /\ AllDone
        /\ pc' = "seq" <=> ParFailed # {}
        /\ pc' = "search_done" <=> ParFailed = {}

\* a request of the sequential pass that used up its attempt without a page
Lost(e) == e.outcome \in {"rate", "err"}

\* what C14 says of a search call whatever the sequential pass does: the
\* items returned come from the pass that finished, and a call that did
\* not fall back asked for every page once
OnePassOnly ==
    /\ SearchReturned =>
          \A i \in DOMAIN search_ret.value :
             search_ret.value[i].via = IF FallbackTaken THEN "seq" ELSE "par"
    /\ (pc \in {"par_wait", "search_done"} /\ ~FallbackTaken) =>
          /\ \A i, j \in DOMAIN req_log :
                req_log[i].page = req_log[j].page => i = j
          /\ SearchOver => Len(req_log) = PagesFor(SearchMax)

\* C14 as stated: the fallback is taken iff a parallel request failed; when
\* it is taken every page is fetched again, from page 1 on (at least in a
\* call that returns), and the items returned come from the sequential pass
\* only; when it is not taken no page is requested twice.
C14_FallbackRefetchesAll ==
    /\ [][FallbackDecision]_vars
    /\ [](/\ OnePassOnly
          /\ SeqLog # <<>> => (SeqLog[1].page = 0 /\ SeqLog[1].attempt = 1)
          /\ (SearchReturned /\ FallbackTaken) =>
                \A p \in 0..(PagesFor(SearchMax) - 1) :
                   \E i \in DOMAIN SeqLog : SeqLog[i].page = p)

\* the sequential pass asks for the pages in ascending order from page 1
\* on, none left out, and goes to the next page only with the page before
\* it in hand; it ends with the last page, an empty page, a page given up
\* after its attempts, or an unexpected error
SeqPassInOrder ==
    /\ SeqLog # <<>> => (SeqLog[1].page = 0 /\ SeqLog[1].attempt = 1)
    /\ \A i \in 1..(Len(SeqLog) - 1) :
          LET e == SeqLog[i]
              f == SeqLog[i + 1]
          IN  \/ e.outcome = "ok" /\ f.page = e.page + 1 /\ f.attempt = 1
              \/ Lost(e) /\ f.page = e.page /\ f.attempt = e.attempt + 1
    /\ (SearchOver /\ FallbackTaken) =>
          LET e == SeqLog[Len(SeqLog)]
          IN  \/ e.outcome = "ok" /\ e.page = PagesFor(SearchMax) - 1
              \/ e.outcome = "ok" /\ UpstreamPage(upstream, e.page) = <<>>
              \/ Lost(e) /\ e.attempt = MaxAttempts
              \/ e.outcome = "bad"

\* C14, amended: the fallback is taken iff a parallel request failed; when
\* it is taken the pages are requested again in ascending order starting
\* from page 1, whether the parallel pass had them or not, up to the last
\* page unless the pass stops before at an empty page, a page given up or an
\* unexpected error, and the items returned come from the sequential pass
\* only; when it is not taken no page is requested twice.
C14_FallbackFromPageOne ==
    /\ [][FallbackDecision]_vars
    /\ [](OnePassOnly /\ SeqPassInOrder)

\* C14 witness: after a failure in a parallel pass of several pages the
\* sequential pass fetched every page again and its items were returned
C14_Witness ==
    /\ SearchReturned
    /\ PagesFor(SearchMax) >= 2
    /\ \A p \in 0..(PagesFor(SearchMax) - 1) :
          \E i \in DOMAIN SeqLog : SeqLog[i].page = p /\ SeqLog[i].outcome = "ok"
    /\ Len(search_ret.value) > per_page
    /\ \A i \in DOMAIN search_ret.value : search_ret.value[i].via = "seq"
\* the requests of the sequential pass for 0-based page p, as indices
SeqRequestsFor(p) == {i \in DOMAIN SeqLog : SeqLog[i].page = p}

\* C15: the sequential pass requests each page at most twice, 429 answers
\* and other request failures counting against the same two attempts; it
\* sleeps 0.5 s then 1 s after a 429 and 1 s then 2 s after another request
\* failure (waits are in half seconds); and after a page is given up no
\* further request is sent in that search call.
C15_TwoAttemptsThenStop ==
    /\ \A p \in 0..(MaxPages - 1) : Cardinality(SeqRequestsFor(p)) <= 2
    /\ \A i \in DOMAIN SeqLog :
          LET e == SeqLog[i]
          IN  /\ e.attempt =
                    Cardinality({j \in SeqRequestsFor(e.page) : j <= i})
              /\ e.outcome = "rate" =>
                    e.wait = (IF e.attempt = 1 THEN 1 ELSE 2)
              /\ e.outcome = "err" =>
                    e.wait = (IF e.attempt = 1 THEN 2 ELSE 4)
              /\ e.outcome \in {"ok", "bad"} => e.wait = 0
              /\ (Lost(e) /\ e.attempt = 2) =>
                    /\ i = Len(SeqLog)
                    /\ pc # "seq"
                    /\ abandoned = e.page + 1
    /\ abandoned # 0 =>
          /\ SeqLog # <<>>
          /\ Lost(SeqLog[Len(SeqLog)])
          /\ Cardinality(SeqRequestsFor(abandoned - 1)) = 2

\* C15 witness: page 2 of at least three was given up after a 429 and then
\* a failed request, and the call ended without asking for page 3
C15_Witness ==
    /\ SearchOver
    /\ abandoned = 2
    /\ PagesFor(SearchMax) >= 3
    /\ Len(SeqLog) = 3
    /\ SeqLog[2].outcome = "rate" /\ SeqLog[2].wait = 1
    /\ SeqLog[3].outcome = "err" /\ SeqLog[3].wait = 4
\* the normalized link of each kind of item
CanonicalLink ==
    [kind \in {"exact", "sub", "other", "nolink"} |-> Canonical([kind |-> kind])]

\* some item of the list matches the target of the query
MatchIn(items) ==
    \E j \in DOMAIN items :
       EqualOrDotSuffix(CanonicalLink[items[j].kind], normalized_domain)

\* the i-th search call of a query asks for min(20 * i, max_results) results
ChunksInOrder ==
    /\ pc \in {"par_wait", "seq"} =>
          /\ n_search >= 1
          /\ search_max = Min(chunk_size * n_search, max_results)
    /\ (pc = "rank_loop" /\ n_search >= 1) => ~MatchIn(organic_results)
    /\ (Returned /\ rank_ret.value.found) => organic_results = search_ret.value

\* search calls are counted one by one, and a list with a match in it is
\* answered at once: the next step is the return of the found response,
\* with no search call and no page request in between or after
MatchEndsQuery ==
    /\ n_search' # n_search =>
          \/ n_search' = n_search + 1 /\ pc' = "par_wait"
          \/ n_search' = 0 /\ pc = "rank_done"
    /\ (SearchReturned /\ MatchIn(search_ret.value)) =>
          /\ pc' = "rank_done"
          /\ rank_ret'.value.found
          /\ n_search' = n_search /\ n_requests' = n_requests
          /\ req_log' = req_log
    /\ pc = "rank_done" => (pc' = "app_loop" /\ n_requests' = 0)

\* C16: the i-th search call of a query asks for min(20 * i, max_results)
\* results, the calls come in that order, and as soon as the scan of a
\* call's results finds a match the query returns: no search call and no
\* page request follows the match.
C16_ChunksThenEarlyExit ==
    /\ []ChunksInOrder
    /\ [][MatchEndsQuery]_vars

\* C16 witness: with max_results = 100 and the match at rank 25 the query
\* returns after its second search call, having sent 2 + 4 page requests
C16_Witness ==
    /\ Returned
    /\ rank_ret.value.found
    /\ rank_ret.value.position = 25
    /\ max_results = DefaultNumResults
    /\ n_search = 2
    /\ n_requests = 6
\* the provider's first page without results, 1-based (pages are numbered
\* up to MaxPages; MaxPages + 1 when every page has results)
FirstEmptyPage ==
    CHOOSE k \in 1..(MaxPages + 1) :
       /\ k <= MaxPages => UpstreamPage(upstream, k - 1) = <<>>
       /\ \A j \in 1..(k - 1) : UpstreamPage(upstream, j - 1) # <<>>

\* what an empty page does to the result: nothing of a later page is in it,
\* and without failed requests the query ends with a response, which for a
\* provider without results is found = false, total_results = 0,
\* top_results = []
EmptyPageEndsList ==
    /\ (SearchReturned /\ q_empty_at # 0) =>
          \A i \in DOMAIN search_ret.value :
             search_ret.value[i].src <= (FirstEmptyPage - 1) * per_page
    /\ (pc = "rank_done" /\ q_empty_at # 0 /\ faults = 0) =>
          /\ ~rank_ret.raised
          /\ upstream.profile = "empty" =>
                /\ ~rank_ret.value.found
                /\ rank_ret.value.total_results = 0
                /\ rank_ret.value.top_results = <<>>

\* after an empty page was received, page requests are sent at most by the
\* search call that received it (those already queued in its pool, and its
\* own fallback), never by a later search call of the query
NoFetchAfterEmptyPage ==
    (q_empty_at # 0 /\ n_requests' > n_requests) => n_search = q_empty_at

\* C17: an empty page ends the fetching of the query without an error: once
\* a page without results has been received and no match was found before,
\* no further search call sends page requests, nothing of a later page is
\* in the result, and the query completes with a response (for a provider
\* without results: found = false, total_results = 0, top_results = []).
C17_EmptyPageStopsFetching ==
    /\ []EmptyPageEndsList
    /\ [][NoFetchAfterEmptyPage]_vars
====
